---- MODULE Spec2Model ----
(***************************************************************************)
(* A model of the binary Decoder of decoder.go: the byte cursor (data,     *)
(* pos), the primitive readers, the varint readers, the type-driven        *)
(* dispatch of Decoder.value and the record decoder decodeStruct.          *)
(*                                                                         *)
(* Go's int and uint64 are 64 bits wide.  A 64-bit word is modelled as the *)
(* sequence of its four 16-bit limbs, least significant first, so that     *)
(* conversions (int(l) of a uint64) and additions (d.pos+int(l)) wrap as   *)
(* they do in the program.  Values of at most 16 bits are plain integers.  *)
(***************************************************************************)
EXTENDS Integers, Sequences, FiniteSets, TLC

\* data, pos: the Decoder.  op, shape, before: the last call made on it, the
\* shape it decoded into and the position it started from.  out: what that
\* call returned (how it ended, the error, the value or the target as it
\* was left, the reads it made).
VARIABLES data, pos, op, shape, before, out

vars == <<data, pos, op, shape, before, out>>

(***************************************************************************)
(* Bounds of the model.                                                    *)
(***************************************************************************)
\* Longest buffer drawn from ByteVals in every combination.
MaxLen == 3

\* The byte values the short buffers are drawn from: zero, one, a small
\* count, and all bits set (a continuation byte, a negative int8).
ByteVals == {0, 1, 2, 255}

(***************************************************************************)
(* Machine words.  A word is the sequence of its 16-bit limbs, least       *)
(* significant first: four limbs for a 64-bit word, two for a 32-bit one.  *)
(***************************************************************************)
WordLimbs == 4

LimbBase == 65536

Pow2(n) == 2 ^ n

ZeroWord(k) == [i \in 1..k |-> 0]

\* The k-limb word of a natural number below 2^30.
NatWord(n, k) ==
  [i \in 1..k |-> IF i = 1 THEN n % LimbBase ELSE IF i = 2 THEN n \div LimbBase ELSE 0]

\* The k-limb two's complement word of an integer in -2^30 .. 2^30-1.
IntWord(n, k) ==
  IF n >= 0 THEN NatWord(n, k)
  ELSE LET m == n + Pow2(30)
       IN  [i \in 1..k |-> IF i = 1 THEN m % LimbBase
                           ELSE IF i = 2 THEN (m \div LimbBase) + 49152
                           ELSE LimbBase - 1]

\* The sign of a word read as a two's complement integer.
IsNeg(x) == x[Len(x)] >= 32768

\* x widened to k limbs with zeros (an unsigned conversion).
ZeroExtend(x, k) == [i \in 1..k |-> IF i <= Len(x) THEN x[i] ELSE 0]

\* x widened to k limbs repeating its sign (a signed conversion).
SignExtend(x, k) ==
  [i \in 1..k |-> IF i <= Len(x) THEN x[i] ELSE IF IsNeg(x) THEN LimbBase - 1 ELSE 0]

\* The word is a natural number below 2^30.
IsSmall(x) == /\ \A i \in 3..Len(x) : x[i] = 0
              /\ Len(x) >= 2 => x[2] < 16384

\* The value of a small word.
SmallVal(x) == IF Len(x) >= 2 THEN x[1] + LimbBase * x[2] ELSE x[1]

\* a + b modulo 2^64 (carry from limb to limb).
Add64(a, b) ==
  LET c1 == (a[1] + b[1]) \div LimbBase
      c2 == (a[2] + b[2] + c1) \div LimbBase
      c3 == (a[3] + b[3] + c2) \div LimbBase
  IN  << (a[1] + b[1]) % LimbBase,
         (a[2] + b[2] + c1) % LimbBase,
         (a[3] + b[3] + c2) % LimbBase,
         (a[4] + b[4] + c3) % LimbBase >>

\* n < x, for a natural n below 2^30 and a signed 64-bit x.
SmallLess(n, x) == ~IsNeg(x) /\ (~IsSmall(x) \/ n < SmallVal(x))

\* x < n, for a natural n below 2^30 and a signed 64-bit x.
LessSmall(x, n) == IsNeg(x) \/ (IsSmall(x) /\ SmallVal(x) < n)

\* binary.LittleEndian.UintN of a byte sequence of even length: the first
\* byte holds the lowest eight bits.
LittleEndian(bytes) ==
  [i \in 1..(Len(bytes) \div 2) |-> bytes[2 * i - 1] + 256 * bytes[2 * i]]

(***************************************************************************)
(* The byte cursor.                                                        *)
(***************************************************************************)
TypeSize_Byte == 1
TypeSize_Bool == 1
TypeSize_Uint16 == 2
TypeSize_Uint32 == 4
TypeSize_Uint64 == 8
TypeSize_Uint128 == 16
TypeSize_Float32 == 4
TypeSize_Float64 == 8

remaining(p) == Len(data) - p

\* d.data[p:p+n] in the model's 1-based indexing.
Slice(p, n) == SubSeq(data, p + 1, p + n)

\* What a call returns: the new position, how it ended ("ok", "err" for a
\* returned error, "panic" for an abort), the error, the value read (or the
\* target as it is left), and the trail of the reads made on the way (a
\* history of the call: which read, from which position to which, and how
\* it ended).
Out(p, s, e, v, tr) == [pos |-> p, st |-> s, err |-> e, val |-> v, trail |-> tr]

\* What a primitive reader returns.
Ret(p, s, e, v) == Out(p, s, e, v, <<>>)

ReadByte(p) ==
  IF remaining(p) < TypeSize_Byte
    THEN Ret(p, "err", "required [1] byte", 0)
    ELSE Ret(p + 1, "ok", "", data[p + 1])

ReadBool(p) ==
  IF remaining(p) < TypeSize_Bool
    THEN Ret(p, "err", "bool required", FALSE)
    ELSE LET r == ReadByte(p)
         IN  Ret(r.pos, r.st, IF r.st = "err" THEN "readBool" ELSE "", r.val # 0)

ReadUint8(p) == ReadByte(p)

ReadInt8(p) ==
  LET r == ReadByte(p)
  IN  Ret(r.pos, r.st, r.err, IF r.val >= 128 THEN r.val - 256 ELSE r.val)

ReadUint16(p) ==
  IF remaining(p) < TypeSize_Uint16
    THEN Ret(p, "err", "uint16 required", 0)
    ELSE Ret(p + TypeSize_Uint16, "ok", "", data[p + 1] + 256 * data[p + 2])

ReadInt16(p) ==
  LET r == ReadUint16(p)
  IN  Ret(r.pos, r.st, r.err, IF r.val >= 32768 THEN r.val - 65536 ELSE r.val)

ReadUint32(p) ==
  IF remaining(p) < TypeSize_Uint32
    THEN Ret(p, "err", "uint32 required", ZeroWord(2))
    ELSE Ret(p + TypeSize_Uint32, "ok", "", LittleEndian(Slice(p, 4)))

ReadInt32(p) == ReadUint32(p)

\* ReadUint64 guarded by the width of a uint32 (the guard of the reader
\* above it copied unchanged).
ReadUint64_Uint32Guard(p) ==
  IF remaining(p) < TypeSize_Uint32
    THEN Ret(p, "err", "uint64 required", ZeroWord(4))
    ELSE Ret(p + TypeSize_Uint64, "ok", "", ZeroWord(4))

ReadUint64(p) ==
  IF remaining(p) < TypeSize_Uint64
    THEN Ret(p, "err", "uint64 required", ZeroWord(4))
    ELSE Ret(p + TypeSize_Uint64, "ok", "", LittleEndian(Slice(p, 8)))

ReadInt64(p) == ReadUint64(p)

ReadUint128(p, typeName) ==
  IF remaining(p) < TypeSize_Uint128
    THEN Ret(p, "err", typeName, [Lo |-> ZeroWord(4), Hi |-> ZeroWord(4)])
    ELSE Ret(p + TypeSize_Uint128, "ok", "",
             [Lo |-> LittleEndian(Slice(p, 8)), Hi |-> LittleEndian(Slice(p + 8, 8))])

ReadInt128(p) == ReadUint128(p, "int128")

ReadFloat32(p) ==
  IF remaining(p) < TypeSize_Float32
    THEN Ret(p, "err", "float32 required", ZeroWord(2))
    ELSE Ret(p + TypeSize_Float32, "ok", "", LittleEndian(Slice(p, 4)))

ReadFloat64(p) ==
  IF remaining(p) < TypeSize_Float64
    THEN Ret(p, "err", "float64 required", ZeroWord(4))
    ELSE Ret(p + TypeSize_Float64, "ok", "", LittleEndian(Slice(p, 8)))

ReadFloat128(p) ==
  LET r == ReadUint128(p, "float128")
  IN  Ret(r.pos, r.st, IF r.st = "err" THEN "float128: float128" ELSE "", r.val)

(***************************************************************************)
(* The varint readers (encoding/binary's Uvarint and Varint).              *)
(***************************************************************************)
MaxVarintLen64 == 10

\* The accumulation without the shift: every group lands on the low bits.
OrShl_NoShift(x, b, s) ==
  [j \in 1..WordLimbs |-> IF j = 1 THEN (x[1] + b) % LimbBase ELSE x[j]]

\* x | uint64(b)<<s in 64 bits, for an x with no bit set from position s
\* up (the bits of b land on clear bits, and those past bit 63 are lost).
OrShl(x, b, s) ==
  LET v == b * Pow2(s % 16)
      k == (s \div 16) + 1
  IN  [j \in 1..WordLimbs |->
         IF j = k THEN x[j] + (v % LimbBase)
         ELSE IF j = k + 1 THEN x[j] + (v \div LimbBase)
         ELSE x[j]]

\* binary.Uvarint's loop from byte i (0-based) of buf, with the bits x
\* gathered so far and the shift s.  n is the number of bytes read, 0 when
\* buf ends before a terminal byte, -(i+1) on overflow of 64 bits.
RECURSIVE UvarintFrom(_, _, _, _)
UvarintFrom(buf, i, x, s) ==
  IF i >= Len(buf) THEN [x |-> ZeroWord(WordLimbs), n |-> 0]
  ELSE LET b == buf[i + 1]
       IN  IF i = MaxVarintLen64 THEN [x |-> ZeroWord(WordLimbs), n |-> -(i + 1)]
           ELSE IF b < 128
             THEN IF i = MaxVarintLen64 - 1 /\ b > 1
                    THEN [x |-> ZeroWord(WordLimbs), n |-> -(i + 1)]
                    ELSE [x |-> OrShl(x, b, s), n |-> i + 1]
             ELSE UvarintFrom(buf, i + 1, OrShl(x, b % 128, s), s + 7)

Uvarint(buf) == UvarintFrom(buf, 0, ZeroWord(WordLimbs), 0)

\* A signed varint without zig-zag: the groups of Uvarint, sign-extended
\* from bit 6 of the final byte.
Varint_SignExtend(buf) ==
  LET u == Uvarint(buf)
      s == 7 * u.n
      ones == [j \in 1..WordLimbs |->
                 IF s <= 16 * (j - 1) THEN LimbBase - 1
                 ELSE IF s >= 16 * j THEN 0
                 ELSE LimbBase - Pow2(s - 16 * (j - 1))]
  IN  [x |-> IF u.n > 0 /\ u.n < MaxVarintLen64 /\ buf[u.n] % 128 >= 64
               THEN [j \in 1..WordLimbs |-> u.x[j] + ones[j]]
               ELSE u.x,
       n |-> u.n]

\* binary.Varint: the zig-zag decoding of Uvarint's result,
\* x := int64(ux >> 1); if ux&1 != 0 { x = ^x }.
Varint(buf) ==
  LET u  == Uvarint(buf)
      sh == [j \in 1..WordLimbs |->
               (u.x[j] \div 2) + (IF j < WordLimbs THEN (u.x[j + 1] % 2) * 32768 ELSE 0)]
  IN  [x |-> IF u.x[1] % 2 = 1 THEN [j \in 1..WordLimbs |-> LimbBase - 1 - sh[j]] ELSE sh,
       n |-> u.n]

ErrVarIntBufferSize == "varint: invalid buffer size"

\* ReadUvarint64 that has moved past the bytes it examined when it finds
\* the varint malformed (a byte-by-byte reader).
ReadUvarint64_ConsumeOnError(p) ==
  LET u == Uvarint(SubSeq(data, p + 1, Len(data)))
  IN  IF u.n = 0 THEN Ret(Len(data), "err", ErrVarIntBufferSize, u.x)
      ELSE IF u.n < 0 THEN Ret(p - u.n, "err", ErrVarIntBufferSize, u.x)
      ELSE Ret(p + u.n, "ok", "", u.x)

ReadUvarint64(p) ==
  LET u == Uvarint(SubSeq(data, p + 1, Len(data)))
  IN  IF u.n <= 0 THEN Ret(p, "err", ErrVarIntBufferSize, u.x)
                  ELSE Ret(p + u.n, "ok", "", u.x)

ReadVarint64(p) ==
  LET u == Varint(SubSeq(data, p + 1, Len(data)))
  IN  IF u.n <= 0 THEN Ret(p, "err", ErrVarIntBufferSize, u.x)
                  ELSE Ret(p + u.n, "ok", "", u.x)

\* int32(n) and int16(n) of the signed varint: its low 32 and 16 bits, the
\* latter read as a signed number.
ReadVarint32(p) ==
  LET r == ReadVarint64(p)
  IN  IF r.st = "err" THEN Ret(r.pos, "err", r.err, ZeroWord(2))
                      ELSE Ret(r.pos, "ok", "", <<r.val[1], r.val[2]>>)

\* uint32(n) of the unsigned varint: its low 32 bits.
ReadUvarint32(p) ==
  LET r == ReadUvarint64(p)
  IN  IF r.st = "err" THEN Ret(r.pos, "err", r.err, ZeroWord(2))
                      ELSE Ret(r.pos, "ok", "", <<r.val[1], r.val[2]>>)

ReadVarint16(p) ==
  LET r == ReadVarint64(p)
  IN  IF r.st = "err" THEN Ret(r.pos, "err", r.err, 0)
      ELSE Ret(r.pos, "ok", "", IF r.val[1] >= 32768 THEN r.val[1] - LimbBase ELSE r.val[1])

\* ReadUvarint16 that reports a value beyond 16 bits as an error.
ReadUvarint16_Checked(p) ==
  LET r == ReadUvarint64(p)
  IN  IF r.st = "err" THEN Ret(r.pos, "err", r.err, 0)
      ELSE IF r.val[2] # 0 \/ r.val[3] # 0 \/ r.val[4] # 0
        THEN Ret(r.pos, "err", "varint overflows uint16", 0)
      ELSE Ret(r.pos, "ok", "", r.val[1])

\* uint16(n) of the unsigned varint: its low 16 bits.
ReadUvarint16(p) ==
  LET r == ReadUvarint64(p)
  IN  IF r.st = "err" THEN Ret(r.pos, "err", r.err, 0)
                      ELSE Ret(r.pos, "ok", "", r.val[1])

\* The length-prefixed blob.  l is a uint64; int(l) is the same 64 bits read
\* as a signed integer, and d.pos+int(l) wraps modulo 2^64.  The slice
\* expression d.data[d.pos : d.pos+int(l)] aborts unless
\* 0 <= d.pos <= d.pos+int(l) <= len(d.data).
\* ReadByteArray with the declared length taken on trust (no comparison
\* with the buffer's length before the position moves).
ReadByteArray_Unchecked(p) ==
  LET r == ReadUvarint64(p)
  IN  IF r.st = "err" THEN Ret(r.pos, "err", r.err, <<>>)
      ELSE IF IsSmall(r.val) THEN Ret(r.pos + SmallVal(r.val), "ok", "", <<>>)
      ELSE Ret(r.pos, "panic", "slice bounds out of range", <<>>)

ReadByteArray(p) ==
  LET r == ReadUvarint64(p)
  IN  IF r.st = "err" THEN Ret(r.pos, "err", r.err, <<>>)
      ELSE LET end == Add64(NatWord(r.pos, WordLimbs), r.val)
           IN  IF SmallLess(Len(data), end)
                 THEN Ret(r.pos, "err", "byte array: missing bytes", <<>>)
               ELSE IF LessSmall(end, r.pos)
                 THEN Ret(r.pos, "panic", "slice bounds out of range", <<>>)
               ELSE Ret(SmallVal(end), "ok", "", SubSeq(data, r.pos + 1, SmallVal(end)))

\* string(data): the bytes of the blob, unchanged.
ReadString(p) == ReadByteArray(p)

\* A UTF-8 continuation byte (10xxxxxx).
IsCont(b) == b >= 128 /\ b <= 191

\* The width utf8.DecodeRuneInString gives the sequence that starts at byte i
\* (1-based) of s when it is well formed (1 to 4 bytes, no overlong form, no
\* surrogate, nothing above U+10FFFF), and 0 when it is not (the decoder then
\* yields utf8.RuneError and steps over one byte).
RuneWidth(s, i) ==
  LET b == s[i]
  IN  IF b < 128 THEN 1
      ELSE IF b >= 194 /\ b <= 223
        THEN IF i + 1 <= Len(s) /\ IsCont(s[i + 1]) THEN 2 ELSE 0
      ELSE IF b >= 224 /\ b <= 239
        THEN IF /\ i + 2 <= Len(s)
                /\ s[i + 1] >= (IF b = 224 THEN 160 ELSE 128)
                /\ s[i + 1] <= (IF b = 237 THEN 159 ELSE 191)
                /\ IsCont(s[i + 2])
               THEN 3 ELSE 0
      ELSE IF b >= 240 /\ b <= 244
        THEN IF /\ i + 3 <= Len(s)
                /\ s[i + 1] >= (IF b = 240 THEN 144 ELSE 128)
                /\ s[i + 1] <= (IF b = 244 THEN 143 ELSE 191)
                /\ IsCont(s[i + 2])
                /\ IsCont(s[i + 3])
               THEN 4 ELSE 0
      ELSE 0

\* The UTF-8 encoding of U+FFFD, the rune fixUtf returns for utf8.RuneError.
ReplacementChar == <<239, 191, 189>>

\* strings.Map(fixUtf, s) from byte i on: a well-formed sequence is written
\* back as it is, a byte that starts none is written as U+FFFD.
RECURSIVE fixUtf(_, _)
fixUtf(s, i) ==
  IF i > Len(s) THEN <<>>
  ELSE LET w == RuneWidth(s, i)
       IN  IF w = 0 THEN ReplacementChar \o fixUtf(s, i + 1)
           ELSE SubSeq(s, i, i + w - 1) \o fixUtf(s, i + w)

\* The error and the position are ReadByteArray's; the string is mapped
\* whether or not the read failed (a failed read gives the empty string).
SafeReadUTF8String(p) ==
  LET r == ReadByteArray(p)
  IN  Ret(r.pos, r.st, r.err, fixUtf(r.val, 1))

(***************************************************************************)
(* Target shapes: the reflect.Type of the value decoded into.              *)
(***************************************************************************)
Scalar(k) == [k |-> k]

ArrayOf(n, e) == [k |-> "array", n |-> n, e |-> e]

SliceOf(e) == [k |-> "slice", e |-> e]

StructOf(fields) == [k |-> "struct", f |-> fields]

\* A pointer type *e.
PtrTo(e) == [k |-> "ptr", e |-> e]

\* The nil pointer.
Nil == "nil"

\* A named type whose pointer implements UnmarshalerBinary.
SelfDecoding == [k |-> "unmarshaler"]

\* A struct field with no bin tag.
Field(name, t) ==
  [Name |-> name, Type |-> t, Skip |-> FALSE, BinaryExtension |-> FALSE,
   Optional |-> FALSE, Sizeof |-> "", CanSet |-> TRUE]

\* What the target holds before the decode: a value no buffer of the model
\* decodes to, so that a field the decoder never wrote can be told from one
\* it set.
PriorByte == 85

RECURSIVE Prior(_)
Prior(t) ==
  CASE t.k \in {"uint8", "int8", "uint16", "int16", "unmarshaler"} -> PriorByte
    [] t.k \in {"uint32", "int32", "float32"} -> NatWord(PriorByte, 2)
    [] t.k \in {"uint64", "int64", "float64"} -> NatWord(PriorByte, 4)
    [] t.k = "ptr" -> Nil
    [] t.k = "bool" -> TRUE
    [] t.k = "string" -> <<PriorByte>>
    [] t.k = "array" -> [i \in 1..t.n |-> Prior(t.e)]
    [] t.k = "slice" -> <<Prior(t.e)>>
    [] t.k = "struct" -> [i \in 1..Len(t.f) |-> Prior(t.f[i].Type)]

\* reflect.Zero of a type.
RECURSIVE Zero(_)
Zero(t) ==
  CASE t.k \in {"uint8", "int8", "uint16", "int16", "unmarshaler"} -> 0
    [] t.k \in {"uint32", "int32", "float32"} -> ZeroWord(2)
    [] t.k \in {"uint64", "int64", "float64"} -> ZeroWord(4)
    [] t.k = "ptr" -> Nil
    [] t.k = "bool" -> FALSE
    [] t.k = "string" -> <<>>
    [] t.k = "array" -> [i \in 1..t.n |-> Zero(t.e)]
    [] t.k = "slice" -> <<>>
    [] t.k = "struct" -> [i \in 1..Len(t.f) |-> Zero(t.f[i].Type)]

(***************************************************************************)
(* The decode option.                                                      *)
(***************************************************************************)
\* &Option{}: not optional, no slice size (SizeOfSlice holds at most one
\* count).
NewOption == [OptionalField |-> FALSE, SizeOfSlice |-> <<>>]

isOptional(option) == option.OptionalField

hasSizeOfSlice(option) == option.SizeOfSlice # <<>>

getSizeOfSlice(option) == option.SizeOfSlice[1]

setSizeOfSlice(option, size) == [option EXCEPT !.SizeOfSlice = <<size>>]

(***************************************************************************)
(* The type dispatcher.                                                    *)
(***************************************************************************)
\* One entry of the trail: the read made (or the refusal of a type with no
\* decode rule, which reads nothing), the position it started from and the
\* one it left, how it ended and the error it gave.
Ev(name, p, r) == [op |-> name, at |-> p, to |-> r.pos, st |-> r.st, err |-> r.err]

\* indirect(rv, true) on the pointer to a target of type t.  The pointer is
\* not settable, so the walk steps through it: when the pointed-to type
\* implements UnmarshalerBinary it returns the unmarshaler and the zero
\* reflect.Value (valid = FALSE), otherwise it goes on to the target.  A
\* target that is not a pointer ends the walk.  A target that is a nil
\* pointer ends it too, whatever it points to: the pointer is settable and
\* v.Elem() of a nil pointer has kind Invalid, so the test made for
\* decodingNull breaks out before anything is allocated, and the Value
\* returned has kind Ptr.
indirect(t) ==
  IF t.k = "unmarshaler"
    THEN [unmarshaler |-> TRUE, valid |-> FALSE, t |-> t]
  ELSE IF t.k = "ptr"
    THEN [unmarshaler |-> FALSE, valid |-> TRUE, t |-> t]
  ELSE [unmarshaler |-> FALSE, valid |-> TRUE, t |-> t]

\* A type's UnmarshalBinary(decoder): the capability of the model reads one
\* byte with ReadByte and returns its error.
UnmarshalBinary(p, tr) ==
  LET r == ReadByte(p)
  IN  Out(r.pos, r.st, r.err, r.val, Append(tr, Ev("UnmarshalBinary", p, r)))

\* The reader of each scalar kind (the first switch of value).
ScalarKinds ==
  {"string", "uint8", "int8", "int16", "int32", "int64", "uint16", "uint32",
   "uint64", "float32", "float64", "bool"}

ScalarReader(k) ==
  CASE k = "string" -> "ReadString"
    [] k = "uint8" -> "ReadByte"
    [] k = "int8" -> "ReadInt8"
    [] k = "int16" -> "ReadInt16"
    [] k = "int32" -> "ReadInt32"
    [] k = "int64" -> "ReadInt64"
    [] k = "uint16" -> "ReadUint16"
    [] k = "uint32" -> "ReadUint32"
    [] k = "uint64" -> "ReadUint64"
    [] k = "float32" -> "ReadFloat32"
    [] k = "float64" -> "ReadFloat64"
    [] k = "bool" -> "ReadBool"

ScalarRead(k, p) ==
  CASE k = "string" -> ReadString(p)
    [] k = "uint8" -> ReadByte(p)
    [] k = "int8" -> ReadInt8(p)
    [] k = "int16" -> ReadInt16(p)
    [] k = "int32" -> ReadInt32(p)
    [] k = "int64" -> ReadInt64(p)
    [] k = "uint16" -> ReadUint16(p)
    [] k = "uint32" -> ReadUint32(p)
    [] k = "uint64" -> ReadUint64(p)
    [] k = "float32" -> ReadFloat32(p)
    [] k = "float64" -> ReadFloat64(p)
    [] k = "bool" -> ReadBool(p)

\* reflect.MakeSlice aborts on a negative length, and the allocation aborts
\* on a length of 2^48 or more (beyond the address space of the heap).
MakeSlicePanics(l) == IsNeg(l) \/ l[4] > 0

\* sizeof that loses the value and gives a count of zero.
sizeof_Zero(t, v) == [panic |-> FALSE, n |-> ZeroWord(WordLimbs)]

\* sizeof(t, v): the count a size-source field of type t and value v gives.
sizeof(t, v) ==
  CASE t.k \in {"int8", "int16"} -> [panic |-> FALSE, n |-> IntWord(v, WordLimbs)]
    [] t.k \in {"int32", "int64"} -> [panic |-> FALSE, n |-> SignExtend(v, WordLimbs)]
    [] t.k \in {"uint8", "uint16"} -> [panic |-> FALSE, n |-> NatWord(v, WordLimbs)]
    [] t.k \in {"uint32", "uint64"} ->
         LET n == ZeroExtend(v, WordLimbs)
         IN  [panic |-> FALSE, n |-> IF IsNeg(n) THEN ZeroWord(WordLimbs) ELSE n]
    [] OTHER -> [panic |-> TRUE, n |-> ZeroWord(WordLimbs)]

RECURSIVE value(_, _, _, _, _)
RECURSIVE dispatch(_, _, _, _, _)
RECURSIVE arrayLoop(_, _, _, _, _)
RECURSIVE sliceLoop(_, _, _, _, _, _)
RECURSIVE decodeStruct(_, _, _, _)
RECURSIVE structLoop(_, _, _, _, _, _, _)

\* The array loop without its "if err != nil { return }": it goes on to the
\* next element and returns the last element's error.
arrayLoop_IgnoreError(t, rv, i, p, tr) ==
  LET r == value(t.e, rv[i + 1], NewOption, p, tr)
      nv == [rv EXCEPT ![i + 1] = r.val]
  IN  IF r.st = "panic" \/ i + 1 >= t.n THEN Out(r.pos, r.st, r.err, nv, r.trail)
      ELSE arrayLoop(t, nv, i + 1, r.pos, r.trail)

\* for i := 0; i < len; i++ { decodeWithOption(rv.Index(i)..., nil) } of a
\* fixed array, from element i (0-based).
arrayLoop(t, rv, i, p, tr) ==
  IF i >= t.n THEN Out(p, "ok", "", rv, tr)
  ELSE LET r == value(t.e, rv[i + 1], NewOption, p, tr)
           nv == [rv EXCEPT ![i + 1] = r.val]
       IN  IF r.st # "ok" THEN Out(r.pos, r.st, r.err, nv, r.trail)
           ELSE arrayLoop(t, nv, i + 1, r.pos, r.trail)

\* The slice loop handing the slice's own count down to its elements.
sliceLoop_InheritLength(t, rv, i, l, p, tr) ==
  IF ~SmallLess(i, l) THEN Out(p, "ok", "", rv, tr)
  ELSE LET r == value(t.e, Zero(t.e), setSizeOfSlice(NewOption, l), p, tr)
           nv == Append(rv, r.val)
       IN  IF r.st # "ok" THEN Out(r.pos, r.st, r.err, nv, r.trail)
           ELSE sliceLoop(t, nv, i + 1, l, r.pos, r.trail)

\* The same loop over the l elements of a slice just made.  rv lists the
\* elements decoded so far; the elements not reached keep the zero value
\* MakeSlice gave them and are not listed.
sliceLoop(t, rv, i, l, p, tr) ==
  IF ~SmallLess(i, l) THEN Out(p, "ok", "", rv, tr)
  ELSE LET r == value(t.e, Zero(t.e), NewOption, p, tr)
           nv == Append(rv, r.val)
       IN  IF r.st # "ok" THEN Out(r.pos, r.st, r.err, nv, r.trail)
           ELSE sliceLoop(t, nv, i + 1, l, r.pos, r.trail)

\* Decoder.value from the switch on rv.Kind() on.
dispatch(ind, rv, option, p, tr) ==
  LET t == ind.t
  IN  IF ind.unmarshaler THEN UnmarshalBinary(p, tr)
      ELSE IF t.k = "string"
        THEN LET r == ScalarRead(t.k, p)
                 tr2 == Append(tr, Ev(ScalarReader(t.k), p, r))
             IN  Out(r.pos, r.st, r.err, IF r.st = "ok" THEN r.val ELSE rv, tr2)
      ELSE IF t.k \in ScalarKinds
        THEN LET r == ScalarRead(t.k, p)
             IN  Out(r.pos, r.st, r.err, r.val, Append(tr, Ev(ScalarReader(t.k), p, r)))
      ELSE IF t.k = "array" THEN arrayLoop(t, rv, 0, p, tr)
      ELSE IF t.k = "slice"
        THEN IF hasSizeOfSlice(option)
               THEN LET l == getSizeOfSlice(option)
                    IN  IF MakeSlicePanics(l)
                          THEN Out(p, "panic", "reflect.MakeSlice", rv, tr)
                          ELSE sliceLoop(t, <<>>, 0, l, p, tr)
               ELSE LET r == ReadUvarint64(p)
                        tr2 == Append(tr, Ev("ReadUvarint64", p, r))
                    IN  IF r.st # "ok" THEN Out(r.pos, r.st, r.err, rv, tr2)
                        ELSE IF MakeSlicePanics(r.val)
                          THEN Out(r.pos, "panic", "reflect.MakeSlice", rv, tr2)
                          ELSE sliceLoop(t, <<>>, 0, r.val, r.pos, tr2)
      ELSE IF t.k = "struct" THEN decodeStruct(t, rv, p, tr)
      ELSE LET r == Out(p, "err", "decode: unsupported type", rv, tr)
           IN  [r EXCEPT !.trail = Append(tr, Ev("unsupported", p, r))]

\* Decoder.value without the presence byte of an optional value.
value_NoPresence(t, rv, option, p, tr) ==
  LET ind == indirect(t)
  IN  IF ~ind.valid
        THEN Out(p, "panic", "reflect.Value.Type on zero Value", rv, tr)
        ELSE dispatch(ind, rv, option, p, tr)

\* Decoder.value: the target of type t holding rv, decoded at position p.
value(t, rv, option, p, tr) ==
  LET ind == indirect(t)
  IN  IF ~ind.valid
        THEN Out(p, "panic", "reflect.Value.Type on zero Value", rv, tr)
      ELSE IF isOptional(option)
        THEN LET r == ReadByte(p)
                 e == Out(r.pos, "err", "decode: isPresent", rv, tr)
                 tr2 == Append(tr, Ev("isPresent", p, IF r.st = "ok" THEN r ELSE e))
             IN  IF r.st # "ok" THEN [e EXCEPT !.trail = tr2]
                 ELSE IF r.val = 0 THEN Out(r.pos, "ok", "", Zero(ind.t), tr2)
                 ELSE dispatch(ind, rv, option, r.pos, tr2)
      ELSE dispatch(ind, rv, option, p, tr)

\* A field without the binary_extension tag after one that has it.
extensionMisplaced(structField, seenBinaryExtensionField) ==
  ~structField.BinaryExtension /\ seenBinaryExtensionField

\* The record decoder without the test for an exhausted buffer.
extensionExhausted_Never(structField, p) == FALSE

\* An extension field reached with nothing left in the buffer.
extensionExhausted(structField, p) ==
  structField.BinaryExtension /\ remaining(p) <= 0

\* The record decoder taking every field, settable or not.
fieldIsDecoded_Always(structField) == TRUE

\* v.CanSet() && structField.Name != "_": the field is decoded.
fieldIsDecoded(structField) == structField.CanSet /\ structField.Name # "_"

\* The field loop of decodeStruct from field i (1-based), with the counts
\* recorded so far and whether an extension field has been seen.
structLoop(t, rv, i, p, tr, sizeOfMap, seenBinaryExtensionField) ==
  IF i > Len(t.f) THEN Out(p, "ok", "", rv, tr)
  ELSE
    LET structField == t.f[i]
        seen == seenBinaryExtensionField \/ structField.BinaryExtension
    IN  IF structField.Skip
          THEN structLoop(t, rv, i + 1, p, tr, sizeOfMap, seenBinaryExtensionField)
        ELSE IF extensionMisplaced(structField, seenBinaryExtensionField)
          THEN Out(p, "panic", "binary_extension tags must be packed together", rv, tr)
        ELSE IF extensionExhausted(structField, p)
          THEN structLoop(t, rv, i + 1, p, tr, sizeOfMap, seen)
        ELSE IF fieldIsDecoded(structField)
          THEN
            LET o1 == IF structField.Name \in DOMAIN sizeOfMap
                        THEN setSizeOfSlice(NewOption, sizeOfMap[structField.Name])
                        ELSE NewOption
                option == [o1 EXCEPT !.OptionalField = structField.Optional]
                r == value(structField.Type, rv[i], option, p, tr)
                nv == [rv EXCEPT ![i] = r.val]
            IN  IF r.st # "ok" THEN Out(r.pos, r.st, r.err, nv, r.trail)
                ELSE IF structField.Sizeof # ""
                  THEN LET size == sizeof(structField.Type, r.val)
                           m2 == [n \in DOMAIN sizeOfMap \cup {structField.Sizeof} |->
                                    IF n = structField.Sizeof THEN size.n ELSE sizeOfMap[n]]
                       IN  IF size.panic
                             THEN Out(r.pos, "panic", "sizeof field", nv, r.trail)
                             ELSE structLoop(t, nv, i + 1, r.pos, r.trail, m2, seen)
                  ELSE structLoop(t, nv, i + 1, r.pos, r.trail, sizeOfMap, seen)
        ELSE structLoop(t, rv, i + 1, p, tr, sizeOfMap, seen)

decodeStruct(t, rv, p, tr) == structLoop(t, rv, 1, p, tr, <<>>, FALSE)

\* Decoder.Decode(&v) for a target v of type t that holds Prior(t).
DecodeAt(t, p) == value(t, Prior(t), NewOption, p, <<>>)

(***************************************************************************)
(* The target shapes of the model.                                         *)
(***************************************************************************)
U8 == Scalar("uint8")
I8 == Scalar("int8")
U16 == Scalar("uint16")
U32 == Scalar("uint32")

Tagged(name, t, tag) ==
  [Field(name, t) EXCEPT !.BinaryExtension = (tag = "binary_extension"),
                         !.Optional = (tag = "optional"),
                         !.Skip = (tag = "-")]

SizeOf(name, t, other) == [Field(name, t) EXCEPT !.Sizeof = other]

\* An unexported field: rv.Field(i).CanSet() is false.
Unexported(f) == [f EXCEPT !.CanSet = FALSE]

Shape(name) ==
  CASE name = "Counted" ->
         StructOf(<<SizeOf("count", U8, "items"), Field("items", SliceOf(U8))>>)
    [] name = "SignedCounted" ->
         StructOf(<<SizeOf("n", I8, "items"), Field("items", SliceOf(U8))>>)
    [] name = "Extended" ->
         StructOf(<<Field("a", U8), Tagged("b", U16, "binary_extension"),
                    Tagged("c", U8, "binary_extension")>>)
    [] name = "Extended32" ->
         StructOf(<<Field("a", U32), Tagged("b", U32, "binary_extension")>>)
    [] name = "Misordered" ->
         StructOf(<<Field("a", U8), Tagged("b", U8, "binary_extension"),
                    Field("c", U8)>>)
    [] name = "WithOptional" ->
         StructOf(<<Tagged("f", U16, "optional"), Field("g", U8)>>)
    [] name = "SelfDecoding" -> SelfDecoding
    [] name = "OptionalSelfDecoding" ->
         StructOf(<<Field("a", U8), Tagged("u", SelfDecoding, "optional")>>)
    [] name = "Nested" ->
         StructOf(<<Field("a", U8),
                    Field("inner", StructOf(<<Field("x", U16), Field("y", U8)>>)),
                    Field("z", U8)>>)
    [] name = "Pair" -> ArrayOf(2, U16)
    [] name = "Words" -> SliceOf(U16)
    [] name = "Bytes" -> SliceOf(U8)
    [] name = "Text" -> Scalar("string")
    [] name = "WithPointer" ->
         StructOf(<<Field("a", U8), Field("p", PtrTo(U32))>>)
    [] name = "PointerPointer" -> PtrTo(PtrTo(U32))
    [] name = "WithUnexported" ->
         StructOf(<<Field("a", U8), Unexported(Field("hidden", U16)),
                    Field("_", U8), Field("z", U8)>>)
    [] name = "UnexportedCount" ->
         StructOf(<<Unexported(SizeOf("n", U8, "items")), Field("items", SliceOf(U8))>>)
    [] name = "UnexportedAfterExtension" ->
         StructOf(<<Field("a", U8), Tagged("b", U8, "binary_extension"),
                    Unexported(Field("c", U8))>>)
    [] name = "UnexportedExtension" ->
         StructOf(<<Field("a", U8), Unexported(Tagged("b", U8, "binary_extension")),
                    Tagged("c", U8, "binary_extension")>>)
    [] name = "OptionalSeq" ->
         StructOf(<<Tagged("s", SliceOf(U8), "optional")>>)
    [] name = "CountedRows" ->
         StructOf(<<SizeOf("n", U8, "rows"), Field("rows", SliceOf(SliceOf(U8)))>>)

ShapeNames ==
  {"Counted", "SignedCounted", "Extended", "Extended32", "Misordered",
   "WithOptional", "SelfDecoding", "OptionalSelfDecoding", "Nested", "Pair",
   "Words", "Bytes", "Text", "OptionalSeq", "CountedRows",
   "WithPointer", "PointerPointer", "WithUnexported", "UnexportedCount",
   "UnexportedAfterExtension", "UnexportedExtension"}

(***************************************************************************)
(* The specification.                                                      *)
(***************************************************************************)
ShortBuffers == UNION {[1..n -> ByteVals] : n \in 0..MaxLen}

\* n copies of byte b.
Rep(b, n) == [i \in 1..n |-> b]

\* Buffers that open with a ten-byte varint: 2^64-1 (int(l) = -1), 2^63-1
\* (d.pos+int(l) wraps) and a tenth byte above 1 (overflow), each alone and
\* followed by a payload byte; and eleven continuation bytes (no terminal
\* byte within the ten a 64-bit varint may take).
LongVarints ==
  {Rep(255, 9) \o <<last>> \o rest : last \in {0, 1, 2}, rest \in {<<>>, <<1>>}}
    \cup {Rep(255, 11), Rep(255, 10) \o <<1>>}

\* The canonical varints of 127, 128, 16383, 16384, 65536 and 2^63-1 (that
\* of 0 is a short buffer).
VarintBoundaries ==
  {<<127>>, <<128, 1>>, <<255, 127>>, <<128, 128, 1>>, <<128, 128, 4>>,
   Rep(255, 8) \o <<127>>}

\* The buffers of the documented examples, and buffers long enough for
\* every fixed width (4, 8, 16 and 17 bytes).
GoldenBuffers ==
  {<<3, 1, 2, 3>>} \cup {[i \in 1..n |-> i] : n \in {4, 8, 16, 17}}

\* Length-prefixed strings: a two-byte character followed by a byte that
\* starts no character, and U+FFFD itself.
Utf8Buffers == {<<3, 195, 169, 255>>, <<3, 239, 191, 189>>}

DataSet ==
  ShortBuffers \cup LongVarints \cup VarintBoundaries \cup GoldenBuffers
    \cup Utf8Buffers

Init ==
  /\ data \in DataSet
  /\ pos = 0
  /\ op = "NewDecoder"
  /\ shape = "none"
  /\ before = 0
  /\ out = Out(0, "ok", "", 0, <<>>)

\* One call of a reader on the decoder: r is what the reader returns when
\* called at the current position.  An abort ends the program.
Call(name, r) ==
  /\ out.st # "panic"
  /\ op' = name
  /\ shape' = "none"
  /\ before' = pos
  /\ out' = r
  /\ pos' = out'.pos
  /\ UNCHANGED data

\* Decoder.Decode(&v) on a fresh target of one of the shapes.
Decode ==
  \E name \in ShapeNames :
    /\ out.st # "panic"
    /\ op' = "Decode"
    /\ shape' = name
    /\ before' = pos
    /\ out' = DecodeAt(Shape(name), pos)
    /\ pos' = out'.pos
    /\ UNCHANGED data

DoReadByte == Call("ReadByte", ReadByte(pos))
DoReadBool == Call("ReadBool", ReadBool(pos))
DoReadUint8 == Call("ReadUint8", ReadUint8(pos))
DoReadInt8 == Call("ReadInt8", ReadInt8(pos))
DoReadUint16 == Call("ReadUint16", ReadUint16(pos))
DoReadInt16 == Call("ReadInt16", ReadInt16(pos))
DoReadUint32 == Call("ReadUint32", ReadUint32(pos))
DoReadInt32 == Call("ReadInt32", ReadInt32(pos))
DoReadUint64 == Call("ReadUint64", ReadUint64(pos))
DoReadInt64 == Call("ReadInt64", ReadInt64(pos))
DoReadUint128 == Call("ReadUint128", ReadUint128(pos, "uint128"))
DoReadInt128 == Call("ReadInt128", ReadInt128(pos))
DoReadFloat32 == Call("ReadFloat32", ReadFloat32(pos))
DoReadFloat64 == Call("ReadFloat64", ReadFloat64(pos))
DoReadFloat128 == Call("ReadFloat128", ReadFloat128(pos))
DoReadUvarint64 == Call("ReadUvarint64", ReadUvarint64(pos))
DoReadVarint64 == Call("ReadVarint64", ReadVarint64(pos))
DoReadVarint32 == Call("ReadVarint32", ReadVarint32(pos))
DoReadUvarint32 == Call("ReadUvarint32", ReadUvarint32(pos))
DoReadVarint16 == Call("ReadVarint16", ReadVarint16(pos))
DoReadUvarint16 == Call("ReadUvarint16", ReadUvarint16(pos))
DoReadByteArray == Call("ReadByteArray", ReadByteArray(pos))
DoReadString == Call("ReadString", ReadString(pos))
DoSafeReadUTF8String == Call("SafeReadUTF8String", SafeReadUTF8String(pos))

Next ==
  \/ DoReadByte
  \/ DoReadBool
  \/ DoReadUint8
  \/ DoReadInt8
  \/ DoReadUint16
  \/ DoReadInt16
  \/ DoReadUint32
  \/ DoReadInt32
  \/ DoReadUint64
  \/ DoReadInt64
  \/ DoReadUint128
  \/ DoReadInt128
  \/ DoReadFloat32
  \/ DoReadFloat64
  \/ DoReadFloat128
  \/ DoReadUvarint64
  \/ DoReadVarint64
  \/ DoReadVarint32
  \/ DoReadUvarint32
  \/ DoReadVarint16
  \/ DoReadUvarint16
  \/ DoReadByteArray
  \/ DoReadString
  \/ DoSafeReadUTF8String
  \/ Decode

Spec == Init /\ [][Next]_vars

(***************************************************************************)
(* Properties.                                                             *)
(***************************************************************************)
Last(seq) == seq[Len(seq)]

\* Bytes left in the buffer when the last call started.
avail == Len(data) - before

\* C1: whatever a read operation does (succeed, return an error, abort), the
\* position stays within 0..len(data) and never moves backward.
C1_PositionInRangeAndMonotone ==
  [][0 <= pos /\ pos <= pos' /\ pos' <= Len(data')]_vars

\* C1's case: a ReadByteArray that failed after it read its length prefix;
\* the position moved forward and is still inside the buffer.
C1_Witness ==
  op = "ReadByteArray" /\ out.st = "err" /\ before < pos /\ pos <= Len(data)

\* C2 (as claimed): for the shapes whose extension fields are contiguous at
\* the end (and that hold no self-decoding type, whose decode is C8's
\* subject), Decode completes or returns an error; it never aborts, whatever
\* count prefix, blob length or size-source value the buffer holds.
C2_DecodeNeverAborts ==
  (op = "Decode" /\ shape \notin {"Misordered", "SelfDecoding", "OptionalSelfDecoding"})
    => out.st \in {"ok", "err"}

\* C3: the linked sequence of a size-source field is decoded without a length
\* prefix (no ReadUvarint64 is made), and a successful decode gives exactly
\* as many elements as the count decoded, taken from the bytes that follow
\* the count; 03 01 02 03 gives count = 3, items = [1,2,3] and consumes 4.
C3_SizeSourceGivesCount ==
  (op = "Decode" /\ shape \in {"Counted", "SignedCounted"}) =>
    /\ \A i \in 1..Len(out.trail) : out.trail[i].op # "ReadUvarint64"
    /\ out.st = "ok" =>
         /\ Len(out.val[2]) = out.val[1]
         /\ out.val[2] = SubSeq(data, before + 2, before + 1 + out.val[1])
         /\ pos = before + 1 + out.val[1]
         /\ Len(out.trail) = 1 + out.val[1]
    /\ (shape = "Counted" /\ avail >= 1) => out.val[1] = data[before + 1]
    /\ (shape = "Counted" /\ data = <<3, 1, 2, 3>> /\ before = 0) =>
         /\ out.st = "ok"
         /\ out.val = <<3, <<1, 2, 3>>>>
         /\ pos = 4

\* C3's case: the documented example.
C3_Witness ==
  /\ op = "Decode" /\ shape = "Counted" /\ data = <<3, 1, 2, 3>> /\ before = 0
  /\ out.st = "ok" /\ out.val = <<3, <<1, 2, 3>>>> /\ pos = 4

\* C4 (as claimed): a signed size-source field that decodes to a negative
\* value records a count of 0: the linked sequence is left empty, consumes
\* nothing, and the record decode neither fails nor aborts.
C4_NegativeCountClampedToZero ==
  (/\ op = "Decode" /\ shape = "SignedCounted"
   /\ avail >= 1 /\ out.val[1] < 0)
    => (out.st = "ok" /\ out.val[2] = <<>> /\ pos = before + 1)

\* C5 (as claimed): an extension field reached with nothing left ends the
\* record decode successfully, with that field and the later ones untouched,
\* in any record (here the two records whose second field is an extension
\* field, decoded from one byte).
C5_ExhaustedExtensionEndsDecode ==
  (op = "Decode" /\ shape \in {"Extended", "Misordered"} /\ avail = 1) =>
    /\ out.st = "ok"
    /\ pos = before + 1
    /\ out.val = <<data[before + 1], PriorByte, PriorByte>>

\* C5 (amended): in a record whose fields after the extension field are all
\* extension fields, an extension field reached with nothing left ends the
\* decode successfully with that field and the later ones untouched and no
\* byte consumed; with a byte left it is decoded like any field, and an
\* underrun in it is an error.
C5_ExtensionTail ==
  /\ (op = "Decode" /\ shape = "Extended") =>
       /\ avail = 1 => /\ out.st = "ok" /\ pos = before + 1
                       /\ out.val = <<data[before + 1], PriorByte, PriorByte>>
                       /\ Len(out.trail) = 1
       /\ avail = 2 => /\ out.st = "err" /\ pos = before + 1
                       /\ Last(out.trail).op = "ReadUint16"
                       /\ out.err = "uint16 required"
                       /\ out.val[3] = PriorByte
       /\ avail = 3 => /\ out.st = "ok" /\ pos = before + 3
                       /\ out.val = <<data[before + 1],
                                      data[before + 2] + 256 * data[before + 3],
                                      PriorByte>>
                       /\ Len(out.trail) = 2
       /\ avail >= 4 => /\ out.st = "ok" /\ pos = before + 4
                        /\ out.val[3] = data[before + 4]
  /\ (op = "Decode" /\ shape = "Extended32") =>
       /\ avail = 4 => /\ out.st = "ok" /\ pos = before + 4
                       /\ out.val[1] = LittleEndian(SubSeq(data, before + 1, before + 4))
                       /\ out.val[2] = Prior(U32)
       /\ avail \in 5..7 => out.st = "err" /\ pos = before + 4
       /\ avail >= 8 => out.st = "ok" /\ pos = before + 8

\* C5's case: the record [a, b extension, c extension] decoded from one byte.
C5_Witness ==
  /\ op = "Decode" /\ shape = "Extended" /\ avail = 1
  /\ out.st = "ok" /\ out.val[2] = PriorByte /\ out.val[3] = PriorByte

\* C6 (as claimed): a record with a plain field declared after an extension
\* field always ends in the schema abort, whatever the buffer holds.
C6_MisorderedAlwaysAborts ==
  (op = "Decode" /\ shape = "Misordered") => out.st = "panic"

\* C7: an optional value reads one presence byte first.  Without a byte for
\* it the decode fails where it started; a zero byte sets the target to its
\* zero value and the next field starts one byte on; a nonzero byte is
\* followed by the value decoded as it is without the option, one byte on.
C7_OptionalPresenceByte ==
  (op = "Decode" /\ shape = "WithOptional") =>
    /\ Len(out.trail) >= 1
    /\ out.trail[1].op = "isPresent" /\ out.trail[1].at = before
    /\ avail = 0 => out.st = "err" /\ pos = before /\ Len(out.trail) = 1
    /\ (avail >= 1 /\ data[before + 1] = 0) =>
         /\ out.val[1] = 0
         /\ Len(out.trail) = 2
         /\ out.trail[2].op = "ReadByte" /\ out.trail[2].at = before + 1
    /\ (avail >= 1 /\ data[before + 1] # 0) =>
         LET plain == DecodeAt(U16, before + 1)
         IN  /\ Len(out.trail) >= 2
             /\ out.trail[2] = plain.trail[1]
             /\ out.val[1] = plain.val
             /\ IF plain.st = "ok"
                  THEN /\ plain.pos = before + 1 + 2
                       /\ Len(out.trail) = 3 /\ out.trail[3].at = plain.pos
                  ELSE out.st = "err" /\ out.err = plain.err /\ pos = before + 1

\* C7's case: a present optional uint16 decoded, then the next field.
C7_Witness ==
  /\ op = "Decode" /\ shape = "WithOptional" /\ avail >= 4
  /\ data[before + 1] # 0 /\ out.st = "ok" /\ pos = before + 4
  /\ out.val[1] = data[before + 2] + 256 * data[before + 3]

\* C8 (as claimed): a target whose type implements UnmarshalBinary is decoded
\* by that method, called where the value begins, and the decode returns the
\* method's result; no presence byte is read first even for an optional
\* field.
C8_SelfDecodingBypassesOption ==
  /\ (op = "Decode" /\ shape = "SelfDecoding") =>
       /\ Len(out.trail) = 1
       /\ out.trail[1].op = "UnmarshalBinary" /\ out.trail[1].at = before
       /\ out.st = out.trail[1].st
  /\ (op = "Decode" /\ shape = "OptionalSelfDecoding" /\ avail >= 1) =>
       /\ Len(out.trail) = 2
       /\ out.trail[2].op = "UnmarshalBinary" /\ out.trail[2].at = before + 1
       /\ out.st = out.trail[2].st

\* C9: the first read that fails ends the decode.  Every read before the last
\* one succeeded; a decode that returns an error returns the error of its
\* last read and leaves the position where that read left it; the fields and
\* elements after the failing one are not written.
C9_FirstFailureEndsDecode ==
  op = "Decode" =>
    /\ \A i \in 1..(Len(out.trail) - 1) : out.trail[i].st = "ok"
    /\ out.st = "err" =>
         /\ Len(out.trail) >= 1
         /\ Last(out.trail).st = "err"
         /\ out.err = Last(out.trail).err
         /\ pos = Last(out.trail).to
    /\ (shape = "Nested" /\ out.st = "err") =>
         LET leaves == <<out.val[1], out.val[2][1], out.val[2][2], out.val[3]>>
         IN  \A j \in (Len(out.trail) + 1)..4 : leaves[j] = PriorByte
    /\ (shape = "Pair" /\ out.st = "err") =>
         \A j \in (Len(out.trail) + 1)..2 : out.val[j] = PriorByte
    /\ (shape = "Words" /\ out.st = "err" /\ Len(out.trail) >= 2) =>
         Len(out.val) = Len(out.trail) - 1

\* C9's case: the second field of the inner record fails; the decode of the
\* outer record stops there and its last field keeps what it held.
C9_Witness ==
  /\ op = "Decode" /\ shape = "Nested" /\ out.st = "err"
  /\ Len(out.trail) = 3 /\ out.trail[3].st = "err"
  /\ out.val[3] = PriorByte /\ pos = before + 3

\* The width the claim gives each fixed-width reader.
FixedReaders ==
  {"ReadByte", "ReadBool", "ReadUint16", "ReadInt16", "ReadUint32", "ReadInt32",
   "ReadFloat32", "ReadUint64", "ReadInt64", "ReadFloat64", "ReadUint128",
   "ReadInt128", "ReadFloat128"}

ClaimedWidth(name) ==
  CASE name \in {"ReadByte", "ReadBool"} -> 1
    [] name \in {"ReadUint16", "ReadInt16"} -> 2
    [] name \in {"ReadUint32", "ReadInt32", "ReadFloat32"} -> 4
    [] name \in {"ReadUint64", "ReadInt64", "ReadFloat64"} -> 8
    [] name \in {"ReadUint128", "ReadInt128", "ReadFloat128"} -> 16

\* C10: a fixed-width reader called with fewer bytes left than its width
\* returns an error and leaves the position; with at least its width left it
\* succeeds and advances by exactly its width.
C10_FixedWidthReaders ==
  op \in FixedReaders =>
    IF avail < ClaimedWidth(op)
      THEN out.st = "err" /\ pos = before
      ELSE out.st = "ok" /\ pos = before + ClaimedWidth(op)

\* C10's case: the documented underrun, a uint64 read from three bytes.
C10_Witness ==
  op = "ReadUint64" /\ Len(data) = 3 /\ before = 0 /\ out.st = "err" /\ pos = 0
\* C11 (as claimed): whatever length L the prefix declares, ReadByteArray
\* (and ReadString, which calls it) returns an error when fewer than L bytes
\* follow the prefix and otherwise returns exactly the L bytes that follow
\* it; no L makes it abort.
C11_ByteArrayAnyLength ==
  (op \in {"ReadByteArray", "ReadString"} /\ ReadUvarint64(before).st = "ok") =>
    LET r == ReadUvarint64(before)
        left == Len(data) - r.pos
    IN  IF ~IsSmall(r.val) \/ SmallVal(r.val) > left
          THEN out.st = "err"
          ELSE /\ out.st = "ok"
               /\ out.val = SubSeq(data, r.pos + 1, r.pos + SmallVal(r.val))
               /\ pos = r.pos + SmallVal(r.val)

\* Every byte left when the last call started has its continuation bit set
\* (true of an exhausted cursor).
allContinuation == \A i \in (before + 1)..Len(data) : data[i] >= 128

\* C12: ReadUvarint64 and ReadVarint64 called where every remaining byte has
\* the continuation bit set (or where no byte remains) return the
\* malformed-varint error and leave the position where it was.
C12_UnterminatedVarint ==
  (op \in {"ReadUvarint64", "ReadVarint64"} /\ allContinuation) =>
    (out.st = "err" /\ out.err = ErrVarIntBufferSize /\ pos = before)

\* C12's case: a signed varint read from continuation bytes only.
C12_Witness ==
  /\ op = "ReadVarint64" /\ avail >= 1 /\ allContinuation
  /\ out.st = "err" /\ out.err = ErrVarIntBufferSize /\ pos = before
\* Bit k (0 the lowest) of a 64-bit word.
Bit(x, k) == (x[(k \div 16) + 1] \div Pow2(k % 16)) % 2

\* How many bytes from where the last call started to the first byte with
\* its high bit clear, that byte included; 0 when there is none.
terminal ==
  LET S == {i \in 1..avail : data[before + i] < 128}
  IN  IF S = {} THEN 0 ELSE CHOOSE i \in S : \A j \in S : i <= j

\* Bit k of the sum of (b_i mod 128) * 128^i over the first n bytes.
GroupBit(n, k) ==
  IF k \div 7 < n THEN ((data[before + (k \div 7) + 1] % 128) \div Pow2(k % 7)) % 2 ELSE 0

\* The last ReadUvarint64 consumed the bytes up to the terminal one and
\* returned the sum of their 7-bit groups.
uvarintIsGroupSum ==
  /\ out.st = "ok"
  /\ pos = before + terminal
  /\ \A k \in 0..63 : Bit(out.val, k) = GroupBit(terminal, k)

\* The canonical encodings of 0, 127, 128, 16383, 16384 and 2^63-1 decode to
\* those values and consume 1, 1, 2, 2, 3 and 9 bytes.
uvarintBoundaries ==
  (op = "ReadUvarint64" /\ before = 0) =>
    /\ data = <<0>> => (out.st = "ok" /\ out.val = NatWord(0, 4) /\ pos = 1)
    /\ data = <<127>> => (out.st = "ok" /\ out.val = NatWord(127, 4) /\ pos = 1)
    /\ data = <<128, 1>> => (out.st = "ok" /\ out.val = NatWord(128, 4) /\ pos = 2)
    /\ data = <<255, 127>> => (out.st = "ok" /\ out.val = NatWord(16383, 4) /\ pos = 2)
    /\ data = <<128, 128, 1>> => (out.st = "ok" /\ out.val = NatWord(16384, 4) /\ pos = 3)
    /\ data = Rep(255, 8) \o <<127>> =>
         (out.st = "ok" /\ out.val = <<65535, 65535, 65535, 32767>> /\ pos = 9)

\* C13 (as claimed): wherever a terminal byte follows, ReadUvarint64 consumes
\* the bytes up to and including it and returns the sum of their 7-bit
\* groups, little end first.
C13_UvarintGroupSum ==
  /\ (op = "ReadUvarint64" /\ terminal > 0) => uvarintIsGroupSum
  /\ uvarintBoundaries

\* C13 (amended): that holds when the terminal byte is one of the first nine,
\* or is the tenth and at most 1 (the sum fits 64 bits); a terminal byte
\* further on, or a tenth byte above 1, gives the malformed-varint error and
\* leaves the position.
C13_UvarintWithinTenBytes ==
  /\ (op = "ReadUvarint64" /\ terminal > 0) =>
       IF terminal < MaxVarintLen64
            \/ (terminal = MaxVarintLen64 /\ data[before + MaxVarintLen64] <= 1)
         THEN uvarintIsGroupSum
         ELSE out.st = "err" /\ out.err = ErrVarIntBufferSize /\ pos = before
  /\ uvarintBoundaries

\* C13's case: the nine bytes of 2^63-1 decoded.
C13_Witness ==
  /\ op = "ReadUvarint64" /\ before = 0 /\ data = Rep(255, 8) \o <<127>>
  /\ out.st = "ok" /\ pos = 9 /\ out.val = <<65535, 65535, 65535, 32767>>
\* C14 (as claimed): ReadVarint64 accumulates the 7-bit groups little end
\* first and sign-extends the result from bit 6 of the final byte, with no
\* zig-zag step: the byte 7F gives -1, the byte 01 gives 1.
C14_SignExtendedVarint ==
  (op = "ReadVarint64" /\ terminal \in 1..(MaxVarintLen64 - 1)) =>
    /\ out.st = "ok"
    /\ pos = before + terminal
    /\ \A k \in 0..63 :
         Bit(out.val, k) = IF k < 7 * terminal THEN GroupBit(terminal, k)
                           ELSE (data[before + terminal] \div 64) % 2

\* C14 (amended): ReadVarint64 succeeds, fails and moves as ReadUvarint64 does
\* at the same position, and returns the zig-zag decoding of that unsigned
\* value u: u/2 when u is even, -(u+1)/2 when u is odd.  The byte 00 gives 0,
\* 01 gives -1, 02 gives 1, 7F gives -64.
C14_ZigZagVarint ==
  op = "ReadVarint64" =>
    LET u == ReadUvarint64(before)
        twice == Add64(out.val, out.val)
    IN  /\ out.st = u.st /\ out.err = u.err /\ pos = u.pos
        /\ out.st = "ok" =>
             IF u.val[1] % 2 = 0
               THEN ~IsNeg(out.val) /\ twice = u.val
               ELSE /\ IsNeg(out.val)
                    /\ Add64(twice, Add64(u.val, NatWord(1, 4))) = ZeroWord(4)
        /\ (avail = 1 /\ data[before + 1] = 0) => out.val = IntWord(0, 4)
        /\ (avail = 1 /\ data[before + 1] = 1) => out.val = IntWord(-1, 4)
        /\ (avail = 1 /\ data[before + 1] = 2) => out.val = IntWord(1, 4)
        /\ (avail = 1 /\ data[before + 1] = 127) => out.val = IntWord(-64, 4)

\* C14's case: the single byte 7F read as a signed varint gives -64.
C14_Witness ==
  /\ op = "ReadVarint64" /\ data = <<127>> /\ before = 0
  /\ out.st = "ok" /\ pos = 1 /\ out.val = IntWord(-64, 4)
\* C15: ReadUvarint16 and ReadUvarint32 succeed, fail and move exactly as
\* ReadUvarint64 does at the same position, and return the low 16 and the
\* low 32 bits of its value; a value that does not fit is truncated, not
\* reported.  65536 (80 80 04) reads as 0 in 16 bits.
C15_NarrowUvarintTruncates ==
  /\ op \in {"ReadUvarint16", "ReadUvarint32"} =>
       LET u == ReadUvarint64(before)
       IN  out.st = u.st /\ out.err = u.err /\ pos = u.pos
  /\ (op = "ReadUvarint16" /\ out.st = "ok") =>
       /\ out.val \in 0..(LimbBase - 1)
       /\ \A k \in 0..15 :
            (out.val \div Pow2(k)) % 2 = Bit(ReadUvarint64(before).val, k)
  /\ (op = "ReadUvarint32" /\ out.st = "ok") =>
       /\ Len(out.val) = 2
       /\ \A k \in 0..31 :
            Bit(out.val, k) = Bit(ReadUvarint64(before).val, k)
  /\ (op = "ReadUvarint16" /\ before = 0 /\ data = <<128, 128, 4>>) =>
       (out.st = "ok" /\ out.val = 0 /\ pos = 3)
  /\ (op = "ReadUvarint32" /\ before = 0 /\ data = <<128, 128, 4>>) =>
       (out.st = "ok" /\ out.val = <<0, 1>> /\ pos = 3)

\* C15's case: a varint above 2^16-1 read as a uint16 is cut to 16 bits.
C15_Witness ==
  /\ op = "ReadUvarint16" /\ ReadUvarint64(before).st = "ok"
  /\ ~IsSmall(ReadUvarint64(before).val)
  /\ out.st = "ok" /\ out.val = LimbBase - 1 /\ pos = before + MaxVarintLen64
\* utf8.Valid of the bytes of s from byte i on.
RECURSIVE ValidUTF8(_, _)
ValidUTF8(s, i) ==
  i > Len(s) \/ (RuneWidth(s, i) > 0 /\ ValidUTF8(s, i + RuneWidth(s, i)))

\* The last call was a string read of a blob that the buffer holds in full
\* and that is not well-formed UTF-8.
illFormedBlob ==
  /\ ReadByteArray(before).st = "ok"
  /\ ~ValidUTF8(ReadByteArray(before).val, 1)

\* C16 (as claimed): on a blob that is not well-formed UTF-8, ReadString
\* fails, while SafeReadUTF8String succeeds with U+FFFD in place of each
\* offending byte; both consume the prefix and the blob.
C16_StrictStringRejectsInvalidUtf8 ==
  /\ (op = "ReadString" /\ illFormedBlob) =>
       (out.st = "err" /\ pos = ReadByteArray(before).pos)
  /\ (op = "SafeReadUTF8String" /\ illFormedBlob) =>
       /\ out.st = "ok" /\ pos = ReadByteArray(before).pos
       /\ ValidUTF8(out.val, 1)
       /\ Len(out.val) > Len(ReadByteArray(before).val)
\* How many entries of a trail are reads of the given kind.
Count(tr, name) == Cardinality({i \in 1..Len(tr) : tr[i].op = name})

\* The total length of the sequences of a sequence.
RECURSIVE TotalLen(_)
TotalLen(rows) == IF rows = <<>> THEN 0 ELSE Len(rows[1]) + TotalLen(Tail(rows))

\* C17: the option of a decode call is not handed down to the elements.  An
\* optional sequence reads one presence byte, then its count, then one byte
\* per element and no further presence byte.  A size source fixes the number
\* of rows of a sequence of sequences and each row still reads its own
\* count.  An array of two uint16 reads two uint16 and no count.
C17_OptionNotInherited ==
  /\ (op = "Decode" /\ shape = "OptionalSeq") =>
       /\ Count(out.trail, "isPresent") = 1
       /\ out.trail[1].op = "isPresent"
       /\ (Len(out.trail) >= 2) =>
            /\ out.trail[2].op = "ReadUvarint64" /\ out.trail[2].at = before + 1
            /\ \A i \in 3..Len(out.trail) :
                 out.trail[i].op = "ReadByte" /\ out.trail[i].at = out.trail[2].to + i - 3
       /\ (out.st = "ok" /\ data[before + 1] # 0) =>
            /\ Len(out.trail) = 2 + Len(out.val[1])
            /\ out.val[1] = SubSeq(data, out.trail[2].to + 1, pos)
  /\ (op = "Decode" /\ shape = "CountedRows") =>
       /\ Len(out.trail) >= 2 =>
            out.trail[2].op = "ReadUvarint64" /\ out.trail[2].at = before + 1
       /\ out.st = "ok" =>
            /\ Len(out.val[2]) = out.val[1]
            /\ Count(out.trail, "ReadUvarint64") = out.val[1]
            /\ Count(out.trail, "ReadByte") = 1 + TotalLen(out.val[2])
            /\ Len(out.trail) = 1 + out.val[1] + TotalLen(out.val[2])
       /\ (before = 0 /\ data = <<1, 2, 3, 4>>) =>
            (out.st = "ok" /\ out.val = <<1, << <<3, 4>> >> >> /\ pos = 4)
  /\ (op = "Decode" /\ shape = "Pair") =>
       /\ \A i \in 1..Len(out.trail) : out.trail[i].op = "ReadUint16"
       /\ Len(out.trail) <= 2
       /\ avail >= 4 => (out.st = "ok" /\ Len(out.trail) = 2 /\ pos = before + 4)

\* C17's case: one row announced by the size source; the row reads its own
\* count (2) and then its two elements.
C17_Witness ==
  /\ op = "Decode" /\ shape = "CountedRows" /\ before = 0 /\ data = <<1, 2, 3, 4>>
  /\ out.st = "ok" /\ out.val = <<1, << <<3, 4>> >> >> /\ pos = 4
  /\ out.trail[2].op = "ReadUvarint64"
\* C18 (as claimed): a nil pointer target is allocated and the wire value is
\* decoded into what it points to: a record [a uint8; p *uint32] takes five
\* bytes, a **uint32 takes four, and neither fails as an unsupported type.
C18_NilPointerAllocated ==
  /\ (op = "Decode" /\ shape \in {"WithPointer", "PointerPointer"}) =>
       out.err # "decode: unsupported type"
  /\ (op = "Decode" /\ shape = "WithPointer" /\ avail >= 5) =>
       /\ out.st = "ok" /\ pos = before + 5
       /\ out.val[2] = LittleEndian(SubSeq(data, before + 2, before + 5))
  /\ (op = "Decode" /\ shape = "PointerPointer" /\ avail >= 4) =>
       /\ out.st = "ok" /\ pos = before + 4
       /\ out.val = LittleEndian(SubSeq(data, before + 1, before + 4))
\* C19 (as claimed): a ReadByteArray, ReadString or SafeReadUTF8String that
\* fails because the declared length exceeds the bytes left leaves the
\* position where it was before the call.
C19_FailedBlobReadKeepsPosition ==
  (/\ op \in {"ReadByteArray", "ReadString", "SafeReadUTF8String"}
   /\ out.st = "err" /\ out.err = "byte array: missing bytes")
    => pos = before

\* What the claim says of an unsettable or blank field that is not placed
\* after an extension field: the record [a; hidden (unexported) uint16; _;
\* z] decodes a and z from two bytes and leaves the two fields between them
\* as they were; in [n (unexported) sizeof items; items] n is not decoded
\* and items reads its own count prefix; in [a; b (unexported) extension; c
\* extension] b is passed over and c is decoded from the byte after a.
unsettablePassedOver ==
  /\ (op = "Decode" /\ shape = "WithUnexported") =>
       /\ out.val[2] = PriorByte /\ out.val[3] = PriorByte
       /\ out.st # "panic"
       /\ \A i \in 1..Len(out.trail) :
            out.trail[i].op = "ReadByte" /\ out.trail[i].at = before + i - 1
       /\ avail >= 2 =>
            /\ out.st = "ok" /\ pos = before + 2 /\ Len(out.trail) = 2
            /\ out.val[1] = data[before + 1] /\ out.val[4] = data[before + 2]
       /\ avail = 1 => (out.st = "err" /\ pos = before + 1)
  /\ (op = "Decode" /\ shape = "UnexportedCount") =>
       /\ out.val[1] = PriorByte
       /\ out.st # "panic" \/ out.err = "reflect.MakeSlice"
       /\ out.trail[1].op = "ReadUvarint64" /\ out.trail[1].at = before
       /\ out.st = "ok" =>
            /\ out.val[2] = SubSeq(data, out.trail[1].to + 1, pos)
            /\ Len(out.trail) = 1 + Len(out.val[2])
       /\ (before = 0 /\ data = <<3, 1, 2, 3>>) =>
            (out.st = "ok" /\ out.val = <<PriorByte, <<1, 2, 3>>>> /\ pos = 4)
  /\ (op = "Decode" /\ shape = "UnexportedExtension") =>
       /\ out.val[2] = PriorByte
       /\ out.st # "panic"
       /\ avail >= 2 =>
            /\ out.st = "ok" /\ pos = before + 2
            /\ out.val[1] = data[before + 1] /\ out.val[3] = data[before + 2]
       /\ avail = 1 => (out.st = "ok" /\ pos = before + 1 /\ out.val[3] = PriorByte)

\* C20 (as claimed): an unsettable or blank field is passed over silently
\* wherever it stands, also in [a; b extension; c (unexported)]: a and b are
\* decoded, c consumes nothing and raises nothing.
C20_UnsettableAlwaysSilent ==
  /\ unsettablePassedOver
  /\ (op = "Decode" /\ shape = "UnexportedAfterExtension") =>
       /\ out.st # "panic"
       /\ out.val[3] = PriorByte
       /\ avail >= 2 => (out.st = "ok" /\ pos = before + 2)
       /\ avail = 1 => (out.st = "ok" /\ pos = before + 1)

\* C20 (amended): an unsettable or blank field is passed over silently unless
\* it has no extension tag and stands after an extension field: there the
\* decode ends in the schema abort when the loop reaches it (it is still
\* left unchanged and consumes nothing), as it would for a settable field.
C20_UnsettablePassedOver ==
  /\ unsettablePassedOver
  /\ (op = "Decode" /\ shape = "UnexportedAfterExtension") =>
       /\ out.val[3] = PriorByte
       /\ avail >= 1 =>
            /\ out.st = "panic"
            /\ out.err = "binary_extension tags must be packed together"
            /\ pos = before + (IF avail >= 2 THEN 2 ELSE 1)
       /\ avail = 0 => (out.st = "err" /\ pos = before)

\* C20's case: the record with an unexported and a blank field decoded with
\* three bytes or more left: only two are consumed.
C20_Witness ==
  /\ op = "Decode" /\ shape = "WithUnexported" /\ avail >= 3
  /\ out.st = "ok" /\ pos = before + 2
  /\ out.val[2] = PriorByte /\ out.val[3] = PriorByte
  /\ out.val[4] = data[before + 2]
====
